---------------------------- MODULE Spec2Model ----------------------------
(***************************************************************************)
(* The fixture provisioning commands of web/src/cypress/support/profile.ts *)
(* (createUser, createManyUsers, resetProfile, addContactMethod,           *)
(* addNotificationRule and the private clearContactMethods), run on a      *)
(* serial command queue against a remote system that owns the users and    *)
(* the contact methods.                                                    *)
(*                                                                         *)
(* A provisioner is a function that, when called, enqueues commands and    *)
(* returns: it is an operator yielding the commands it enqueues.  A        *)
(* .then(callback) is a queued command whose callback runs when the        *)
(* command before it has resolved; whatever the callback enqueues runs     *)
(* before the rest of the queue.                                           *)
(***************************************************************************)
EXTENDS Integers, Sequences, FiniteSets, TLC

(***************************************************************************)
(* Bounds of the model.                                                    *)
(***************************************************************************)
MaxCalls == 2        \* top-level commands one test issues
MaxCM == 3           \* contact-method ids the remote system ever assigns
MaxInitCM == 2       \* contact methods that exist before the test
MaxUsers == 2        \* length of a createManyUsers list
MaxInvocations == 4  \* invocations of one provisioner within one command

(***************************************************************************)
(* Values.                                                                 *)
(***************************************************************************)
Undef == "undefined"                \* an omitted optional field
NoArg == [absent |-> TRUE]          \* an omitted optional argument
NoSubject == [kind |-> "none"]      \* nothing yielded

UserIds == {"u1", "u2"}             \* users of the remote system
CMId(n) == "c" \o ToString(n)       \* the n-th id the remote system assigns

\* JS truthiness of an optional string: undefined and "" are falsy.
Truthy(v) == v # Undef /\ v # ""
\* JS truthiness of an optional number (<<>> omitted, <<n>> given): 0 is falsy.
TruthyNum(d) == d # <<>> /\ d[1] # 0
\* a || b
OrElse(a, b) == IF Truthy(a) THEN a ELSE b

\* Values the Chance generator yields.
SynthWord == "word"                 \* c.word({ length: .. })
SynthEmail == "synth@example.com"   \* c.email()
SynthPhone == "+1763#######"        \* '+1763' + c.integer(3000000..3999999)
SynthDelayMin == 0
SynthDelayMax == 15
Guid(n) == "g" \o ToString(n)       \* c.guid(): the n-th identifier drawn
TypeDraws == {"SMS", "VOICE"}                  \* c.pickone(['SMS', 'VOICE'])
DelayDraws == SynthDelayMin..SynthDelayMax     \* c.integer({ min: 0, max: 15 })

(***************************************************************************)
(* Commands on the queue.                                                  *)
(***************************************************************************)
Fixture == [k |-> "fixture"]                         \* cy.fixture('profile')
Sql(rows) == [k |-> "sql", rows |-> rows]            \* cy.sql(dbQuery)
Gql(op, input) == [k |-> "gql", op |-> op, input |-> input]  \* cy.graphql2
Then(cb, env) == [k |-> "then", cb |-> cb, env |-> env]      \* .then(cb)
Cmd(name, arg) == [k |-> "cmd", name |-> name, arg |-> arg]  \* cy.<name>(arg)

\* {} for ContactMethodOptions and NotificationRuleOptions
EmptyCM == [userID |-> Undef, name |-> Undef, type |-> Undef, value |-> Undef]
EmptyNR == [userID |-> Undef, contactMethodID |-> Undef, delayMinutes |-> <<>>,
            contactMethod |-> NoArg]
EmptyUser == [name |-> Undef, email |-> Undef, role |-> Undef]
\* { ...o } of an optional ContactMethodOptions
Spread(o) == IF o = NoArg THEN EmptyCM ELSE o

(***************************************************************************)
(* createManyUsers, createUser.  g is the number of guids drawn so far.    *)
(***************************************************************************)
MutRoleNotDefaulted(user, id) ==
  [id    |-> id,
   name  |-> OrElse(user.name, SynthWord),
   email |-> OrElse(user.email, SynthEmail),
   role  |-> user.role]
UserProfile(user, id) ==
  [id    |-> id,
   name  |-> OrElse(user.name, SynthWord),
   email |-> OrElse(user.email, SynthEmail),
   role  |-> OrElse(user.role, "user")]

MutOnePerUser(users, g) ==
  [i \in 1..(2 * Len(users)) |->
     IF i % 2 = 1
       THEN Sql(<<UserProfile(users[(i + 1) \div 2], Guid(g + (i + 1) \div 2))>>)
       ELSE Then("cmuReturn",
                 [j \in 1..Len(users) |-> UserProfile(users[j], Guid(g + j))])]

createManyUsers(users, g) ==
  LET profiles == [i \in 1..Len(users) |-> UserProfile(users[i], Guid(g + i))]
  IN  << Sql(profiles), Then("cmuReturn", profiles) >>

createUser(user, g) ==
  LET u == IF user = NoArg THEN EmptyUser ELSE user
  IN  createManyUsers(<<u>>, g) \o << Then("cuFirst", NoArg) >>

(***************************************************************************)
(* addContactMethod.  r is the random draw of this invocation.             *)
(***************************************************************************)
CreateCMInput(cm, r) ==
  [userID |-> cm.userID,
   name   |-> OrElse(cm.name, "SM CM " \o SynthWord),
   type   |-> OrElse(cm.type, r),
   value  |-> OrElse(cm.value, SynthPhone)]

addContactMethod(cm0, r) ==
  LET cm == IF cm0 = NoArg THEN EmptyCM ELSE cm0
  IN  IF ~Truthy(cm.userID)
        THEN << Fixture, Then("acmRetry", cm) >>
        ELSE << Gql("createUserContactMethod", CreateCMInput(cm, r)),
                Then("acmStamp", cm) >>

\* prof => addContactMethod({ ...cm, userID: prof.id })
MutAcmRetryDropsUser(cm, prof) == cm
acmRetryArg(cm, prof) == [cm EXCEPT !.userID = prof.id]

\* res = res.createUserContactMethod; res.userID = cm && cm.userID
MutNoStamp(cm, res) == res
acmStamp(cm, res) == [res EXCEPT !.userID = cm.userID]

(***************************************************************************)
(* addNotificationRule.                                                    *)
(***************************************************************************)
CreateNRInput(nr, r) ==
  [userID          |-> nr.userID,
   contactMethodID |-> nr.contactMethodID,
   delayMinutes    |-> IF TruthyNum(nr.delayMinutes) THEN nr.delayMinutes[1]
                                                      ELSE r]

\* { ...nr.contactMethod, userID: nr.userID }
MutNestedKeepsOwnUser(nr) ==
  [Spread(nr.contactMethod) EXCEPT
     !.userID = IF Spread(nr.contactMethod).userID # Undef
                  THEN Spread(nr.contactMethod).userID ELSE nr.userID]
MutNestedWithoutUser(nr) == Spread(nr.contactMethod)
NestedCMArg(nr) == [Spread(nr.contactMethod) EXCEPT !.userID = nr.userID]

MutCMBeforeUser(nr0, r) ==
  LET nr == IF nr0 = NoArg THEN EmptyNR ELSE nr0
  IN  IF ~Truthy(nr.contactMethodID)
        THEN << Cmd("addContactMethod", NestedCMArg(nr)), Then("anrRetryCM", nr) >>
        ELSE IF ~Truthy(nr.userID)
          THEN << Fixture, Then("anrRetryUser", nr) >>
          ELSE << Gql("createUserNotificationRule", CreateNRInput(nr, r)),
                  Then("anrStamp", nr) >>

addNotificationRule(nr0, r) ==
  LET nr == IF nr0 = NoArg THEN EmptyNR ELSE nr0
  IN  IF ~Truthy(nr.userID)
        THEN << Fixture, Then("anrRetryUser", nr) >>
        ELSE IF ~Truthy(nr.contactMethodID)
          THEN << Cmd("addContactMethod", NestedCMArg(nr)), Then("anrRetryCM", nr) >>
          ELSE << Gql("createUserNotificationRule", CreateNRInput(nr, r)),
                  Then("anrStamp", nr) >>

\* prof => addNotificationRule({ ...nr, userID: prof.id })
MutAnrRetryDropsCM(nr, prof) == [EmptyNR EXCEPT !.userID = prof.id]
anrRetryUserArg(nr, prof) == [nr EXCEPT !.userID = prof.id]

\* cm => addNotificationRule({ ...nr, contactMethodID: cm.id })
MutRetryDropsNewCM(nr, cm) == nr
anrRetryCMArg(nr, cm) == [nr EXCEPT !.contactMethodID = cm.id]

\* res = res.createUserNotificationRule; res.userID = userID;
\* res.contactMethod.userID = userID
MutStampTopOnly(nr, res) == [res EXCEPT !.userID = nr.userID]
anrStamp(nr, res) ==
  [res EXCEPT !.userID = nr.userID, !.contactMethod.userID = nr.userID]

(***************************************************************************)
(* clearContactMethods, resetProfile.                                      *)
(***************************************************************************)
MutDeleteWrongKind(cmid) == << [type |-> "user", id |-> cmid] >>
DeleteAllInput(cmid) == << [type |-> "contactMethod", id |-> cmid] >>

\* the callback of the listing query: one deleteAll per contact method found
MutBatchDelete(ids) ==
  << Gql("deleteAll", [i \in 1..Len(ids) |-> DeleteAllInput(ids[i])[1]]) >>
MutDeleteFirstOnly(ids) ==
  IF Len(ids) = 0 THEN << >> ELSE << Gql("deleteAll", DeleteAllInput(ids[1])) >>
ccmDelete(ids) ==
  IF Len(ids) = 0
    THEN << >>
    ELSE [i \in 1..Len(ids) |-> Gql("deleteAll", DeleteAllInput(ids[i]))]

clearContactMethods(id) ==
  << Gql("listContactMethods", [id |-> id]), Then("ccmDelete", NoArg) >>

UpdateUserInput(prof) ==
  [id |-> prof.id, name |-> prof.name, email |-> prof.email, role |-> prof.role]

MutUpdateBeforeClear(prof) ==
  IF prof = NoArg
    THEN << Fixture, Then("rpRetry", NoArg) >>
    ELSE << Gql("updateUser", UpdateUserInput(prof)) >> \o clearContactMethods(prof.id)
resetProfile(prof) ==
  IF prof = NoArg
    THEN << Fixture, Then("rpRetry", NoArg) >>
    ELSE clearContactMethods(prof.id) \o << Gql("updateUser", UpdateUserInput(prof)) >>

(***************************************************************************)
(* Inputs the test draws its arguments from.                               *)
(***************************************************************************)
FixtureProfile ==
  [id |-> "u1", name |-> "Test User", email |-> "test@example.com", role |-> "admin"]
InitialRow == [name |-> "old", email |-> "old@example.com", role |-> "user"]

UserOpts ==
  { [name |-> "Alice", email |-> Undef, role |-> "admin"],
    [name |-> "", email |-> "bob@example.com", role |-> Undef] }
UserLists == UNION { [1..n -> UserOpts] : n \in 0..MaxUsers }
ProfileArgs ==
  { NoArg,
    [id |-> "u2", name |-> "Bob", email |-> "bob@example.com", role |-> "user"],
    [id |-> "u1", name |-> "Carol", email |-> "carol@example.com", role |-> "admin"] }
CMArgs ==
  { NoArg,
    [EmptyCM EXCEPT !.userID = "u2"],
    [userID |-> "u1", name |-> "Work", type |-> "SMS", value |-> "+15551230000"],
    [userID |-> Undef, name |-> "", type |-> "VOICE", value |-> Undef] }
NestedCM == [userID |-> "u2", name |-> "Work", type |-> "SMS", value |-> Undef]
\* the delay draw depends neither on the nested contact method nor on the user named
NRArgs ==
  { NoArg } \cup
  [userID : {Undef, "u1", "u2"}, contactMethodID : {Undef, CMId(1)},
   delayMinutes : {<<7>>}, contactMethod : {NoArg, NestedCM}] \cup
  [userID : {Undef, "u2"}, contactMethodID : {CMId(1)},
   delayMinutes : {<<>>, <<0>>}, contactMethod : {NoArg}]

CMIdSet == { CMId(n) : n \in 1..MaxCM }

(***************************************************************************)
(* State.                                                                  *)
(***************************************************************************)
VARIABLES
  queue,      \* the command queue, head first
  inflight,   \* the remote round trip awaiting its response, or NoFlight
  subject,    \* what the last resolved command yielded
  status,     \* "idle", "running", "done" (chain resolved), "failed"
  cur,        \* the top-level command being run: [op, arg]
  prev,       \* the top-level command run before it, if a resetProfile:
              \* the user it listed and how many contact methods it deleted
  result,     \* what the top-level command yielded to its caller
  log,        \* what the current top-level command has done so far
  calls,      \* top-level commands issued
  guids,      \* guids drawn from the Chance generator
  fixtureOK,  \* whether the profile fixture can be loaded
  cmOwner,    \* remote: contact-method id -> owning user, Undef if none
  nextCM,     \* remote: index of the next contact-method id
  userRow     \* remote: user id -> name, email, role

vars == << queue, inflight, subject, status, cur, prev, result, log, calls,
           guids, fixtureOK, cmOwner, nextCM, userRow >>
remote == << cmOwner, nextCM, userRow >>

NoFlight == [k |-> "none"]
Ev(ev, what, a, b, n) == [ev |-> ev, what |-> what, a |-> a, b |-> b, n |-> n]
Owner(id) == IF id \in DOMAIN cmOwner THEN cmOwner[id] ELSE Undef
OwnedBy(u) == { id \in DOMAIN cmOwner : cmOwner[id] = u }
\* every order in which the remote system may list a set of ids
Orderings(S) ==
  { s \in [1..Cardinality(S) -> S] : \A i, j \in 1..Cardinality(S) : i # j => s[i] # s[j] }

Init ==
  /\ queue = << >>
  /\ inflight = NoFlight
  /\ subject = NoSubject
  /\ status = "idle"
  /\ cur = [op |-> "none", arg |-> NoArg]
  /\ prev = [op |-> "none", uid |-> Undef, deleted |-> 0]
  /\ result = NoSubject
  /\ log = << >>
  /\ calls = 0
  /\ guids = 0
  /\ fixtureOK \in BOOLEAN
  /\ \E n \in 0..MaxInitCM :
       /\ nextCM = n + 1
       /\ \E own \in [1..n -> UserIds] :
            cmOwner = [id \in CMIdSet |->
                         IF \E i \in 1..n : id = CMId(i)
                           THEN own[CHOOSE i \in 1..n : id = CMId(i)]
                           ELSE Undef]
  /\ userRow = [u \in UserIds |-> InitialRow]

(***************************************************************************)
(* The test issues a top-level command (Cypress.Commands.add, l.241-245).  *)
(***************************************************************************)
\* the events of the log of one kind
Events(ev, what) == { i \in 1..Len(log) : log[i].ev = ev /\ log[i].what = what }
Count(ev, what) == Cardinality(Events(ev, what))
\* the user whose contact methods the command listed, if it listed any
ListedUser ==
  IF Events("issue", "listContactMethods") # {}
    THEN log[CHOOSE i \in Events("issue", "listContactMethods") : TRUE].a
    ELSE Undef

Call(op, arg) ==
  /\ status \in {"idle", "done"}
  /\ queue = << >>
  /\ inflight = NoFlight
  /\ calls < MaxCalls
  /\ queue' = << Cmd(op, arg) >>
  /\ status' = "running"
  /\ cur' = [op |-> op, arg |-> arg]
  /\ prev' = [op |-> IF cur.op = "resetProfile" THEN cur.op ELSE "none",
              uid |-> ListedUser, deleted |-> Count("ok", "deleteAll")]
  /\ result' = NoSubject
  /\ subject' = NoSubject
  /\ log' = << >>
  /\ calls' = calls + 1
  /\ UNCHANGED << inflight, guids, fixtureOK, remote >>

CallCreateUser == \E a \in UserOpts \cup {NoArg} : Call("createUser", a)
CallCreateManyUsers == \E l \in UserLists : Call("createManyUsers", l)
CallResetProfile == \E p \in ProfileArgs : Call("resetProfile", p)
CallAddContactMethod ==
  /\ nextCM <= MaxCM
  /\ \E a \in CMArgs : Call("addContactMethod", a)
CallAddNotificationRule ==
  /\ nextCM <= MaxCM
  /\ \E a \in NRArgs : Call("addNotificationRule", a)

(***************************************************************************)
(* The queue runs a registered command: it calls the command's function,   *)
(* which enqueues its commands ahead of the rest of the queue.             *)
(***************************************************************************)
Head1 == queue[1]
Ready(k) ==
  /\ status = "running"
  /\ inflight = NoFlight
  /\ queue # << >>
  /\ Head1.k = k
Enqueue(cmds) == queue' = cmds \o Tail(queue)
Logged(evs) == log' = log \o evs
CallEv(fn, a, b) == Ev("call", fn, a, b, 0)
Invocations(fn) == Count("call", fn)

RunCreateUser ==
  /\ Ready("cmd")
  /\ Head1.name = "createUser"
  /\ Enqueue(createUser(Head1.arg, guids))
  /\ guids' = guids + 1
  /\ Logged(<< CallEv("createUser", Undef, Undef),
               CallEv("createManyUsers", Undef, Undef) >>)
  /\ UNCHANGED << inflight, subject, status, cur, prev, result, calls, fixtureOK, remote >>

RunCreateManyUsers ==
  /\ Ready("cmd")
  /\ Head1.name = "createManyUsers"
  /\ Enqueue(createManyUsers(Head1.arg, guids))
  /\ guids' = guids + Len(Head1.arg)
  /\ Logged(<< CallEv("createManyUsers", Undef, Undef) >>)
  /\ UNCHANGED << inflight, subject, status, cur, prev, result, calls, fixtureOK, remote >>

RunResetProfile ==
  /\ Ready("cmd")
  /\ Head1.name = "resetProfile"
  /\ Enqueue(resetProfile(Head1.arg))
  /\ Logged(<< CallEv("resetProfile", IF Head1.arg = NoArg THEN Undef ELSE Head1.arg.id,
                      Undef) >>)
  /\ UNCHANGED << inflight, subject, status, cur, prev, result, calls, guids,
                  fixtureOK, remote >>

\* addContactMethod(arg) is invoked: by the queue, or by its own retry
InvokeAddContactMethod(arg) ==
  /\ Invocations("addContactMethod") < MaxInvocations
  /\ \E r \in TypeDraws : Enqueue(addContactMethod(arg, r))
  /\ Logged(<< CallEv("addContactMethod", Spread(arg).userID, Undef) >>)
  /\ UNCHANGED << inflight, status, cur, prev, result, calls, guids, fixtureOK, remote >>

\* addNotificationRule(arg) is invoked: by the queue, or by one of its retries
InvokeAddNotificationRule(arg) ==
  /\ Invocations("addNotificationRule") < MaxInvocations
  /\ \E r \in DelayDraws : Enqueue(addNotificationRule(arg, r))
  /\ Logged(<< CallEv("addNotificationRule",
                      IF arg = NoArg THEN Undef ELSE arg.userID,
                      IF arg = NoArg THEN Undef ELSE arg.contactMethodID) >>)
  /\ UNCHANGED << inflight, status, cur, prev, result, calls, guids, fixtureOK, remote >>

RunAddContactMethod ==
  /\ Ready("cmd")
  /\ Head1.name = "addContactMethod"
  /\ InvokeAddContactMethod(Head1.arg)
  /\ UNCHANGED subject

RunAddNotificationRule ==
  /\ Ready("cmd")
  /\ Head1.name = "addNotificationRule"
  /\ InvokeAddNotificationRule(Head1.arg)
  /\ UNCHANGED subject

(***************************************************************************)
(* The queue starts a remote round trip: cy.fixture, cy.sql, cy.graphql2.  *)
(***************************************************************************)
IssueEv(c) ==
  IF c.k = "fixture" THEN Ev("issue", "fixture", Undef, Undef, 0)
  ELSE IF c.k = "sql" THEN Ev("issue", "sql", Undef, Undef, Len(c.rows))
  ELSE IF c.op = "createUserContactMethod"
    THEN Ev("issue", c.op, c.input.userID, Undef, 0)
  ELSE IF c.op = "createUserNotificationRule"
    THEN Ev("issue", c.op, c.input.userID, c.input.contactMethodID, c.input.delayMinutes)
  ELSE IF c.op = "deleteAll"
    THEN Ev("issue", c.op, Undef,
            IF Len(c.input) > 0 THEN c.input[1].id ELSE Undef, Len(c.input))
  ELSE Ev("issue", c.op, c.input.id, Undef, 0)

Issue ==
  /\ status = "running"
  /\ inflight = NoFlight
  /\ queue # << >>
  /\ Head1.k \in {"fixture", "sql", "gql"}
  /\ inflight' = Head1
  /\ queue' = Tail(queue)
  /\ Logged(<< IssueEv(Head1) >>)
  /\ UNCHANGED << subject, status, cur, prev, result, calls, guids, fixtureOK, remote >>

(***************************************************************************)
(* The remote round trip in flight resolves or fails.  A failed command    *)
(* fails the chain: nothing queued behind it runs.                         *)
(***************************************************************************)
Yield(kind, v) == [kind |-> kind, v |-> v]
Resolved(ev, v) ==
  /\ inflight' = NoFlight
  /\ subject' = v
  /\ Logged(<< ev >>)
  /\ UNCHANGED << queue, status, cur, prev, result, calls, guids, fixtureOK >>
Failed(what) ==
  /\ inflight' = NoFlight
  /\ status' = "failed"
  /\ queue' = << >>
  /\ subject' = NoSubject
  /\ Logged(<< Ev("fail", what, Undef, Undef, 0) >>)
  /\ UNCHANGED << cur, prev, result, calls, guids, fixtureOK, remote >>
InFlight(k, op) ==
  /\ status = "running"
  /\ inflight.k = k
  /\ k = "gql" => inflight.op = op

FixtureLoaded ==
  /\ InFlight("fixture", "")
  /\ fixtureOK
  /\ Resolved(Ev("ok", "fixture", FixtureProfile.id, Undef, 0),
              Yield("profile", FixtureProfile))
  /\ UNCHANGED remote

FixtureMissing ==
  /\ InFlight("fixture", "")
  /\ ~fixtureOK
  /\ Failed("fixture")

\* the insert statement with no value tuple is no statement
SqlDone ==
  /\ InFlight("sql", "")
  /\ Len(inflight.rows) > 0
  /\ Resolved(Ev("ok", "sql", Undef, Undef, Len(inflight.rows)), Yield("sql", << >>))
  /\ UNCHANGED remote

CreateContactMethodDone ==
  /\ InFlight("gql", "createUserContactMethod")
  /\ inflight.input.userID \in UserIds
  /\ nextCM <= MaxCM
  /\ cmOwner' = [cmOwner EXCEPT ![CMId(nextCM)] = inflight.input.userID]
  /\ nextCM' = nextCM + 1
  /\ Resolved(Ev("ok", "createUserContactMethod", inflight.input.userID, CMId(nextCM), 0),
              Yield("cm", [id |-> CMId(nextCM), userID |-> Undef,
                           name |-> inflight.input.name, type |-> inflight.input.type,
                           value |-> inflight.input.value]))
  /\ UNCHANGED userRow

\* the remote system creates the rule for any user and any contact method that
\* exist; the response carries no userID
CreateNotificationRuleDone ==
  /\ InFlight("gql", "createUserNotificationRule")
  /\ inflight.input.userID \in UserIds
  /\ Owner(inflight.input.contactMethodID) # Undef
  /\ Resolved(Ev("ok", "createUserNotificationRule", inflight.input.userID,
                 inflight.input.contactMethodID, inflight.input.delayMinutes),
              Yield("rule", [id |-> "rule", userID |-> Undef,
                             delayMinutes |-> inflight.input.delayMinutes,
                             contactMethodID |-> inflight.input.contactMethodID,
                             contactMethod |-> [id |-> inflight.input.contactMethodID,
                                                userID |-> Undef]]))
  /\ UNCHANGED remote

ListContactMethodsDone ==
  /\ InFlight("gql", "listContactMethods")
  /\ inflight.input.id \in UserIds
  /\ \E ids \in Orderings(OwnedBy(inflight.input.id)) :
       Resolved(Ev("ok", "listContactMethods", inflight.input.id, Undef, Len(ids)),
                Yield("list", ids))
  /\ UNCHANGED remote

DeleteAllDone ==
  /\ InFlight("gql", "deleteAll")
  /\ cmOwner' = [id \in DOMAIN cmOwner |->
                   IF \E i \in 1..Len(inflight.input) : inflight.input[i].id = id
                     THEN Undef ELSE cmOwner[id]]
  /\ Resolved(Ev("ok", "deleteAll", Undef,
                 IF Len(inflight.input) > 0 THEN inflight.input[1].id ELSE Undef,
                 Len(inflight.input)),
              Yield("deleted", << >>))
  /\ UNCHANGED << nextCM, userRow >>

UpdateUserDone ==
  /\ InFlight("gql", "updateUser")
  /\ inflight.input.id \in UserIds
  /\ userRow' = [userRow EXCEPT ![inflight.input.id] =
                   [name |-> inflight.input.name, email |-> inflight.input.email,
                    role |-> inflight.input.role]]
  /\ Resolved(Ev("ok", "updateUser", inflight.input.id, Undef, 0), Yield("updated", << >>))
  /\ UNCHANGED << cmOwner, nextCM >>

RemoteFails ==
  /\ status = "running"
  /\ inflight.k \in {"sql", "gql"}
  /\ Failed(IF inflight.k = "sql" THEN "sql" ELSE inflight.op)

(***************************************************************************)
(* The queue runs a .then callback on what the command before it yielded.  *)
(***************************************************************************)
ReadyThen(cb) ==
  /\ Ready("then")
  /\ Head1.cb = cb
Returns(v) ==
  /\ queue' = Tail(queue)
  /\ subject' = v
  /\ UNCHANGED << inflight, status, cur, prev, result, log, calls, guids, fixtureOK, remote >>

\* l.90: () => profiles
cmuReturn ==
  /\ ReadyThen("cmuReturn")
  /\ Returns(Yield("profiles", Head1.env))

\* l.95: p => p[0]
cuFirst ==
  /\ ReadyThen("cuFirst")
  /\ Len(subject.v) > 0
  /\ Returns(Yield("profile", subject.v[1]))

\* l.105
acmRetry ==
  /\ ReadyThen("acmRetry")
  /\ InvokeAddContactMethod(acmRetryArg(Head1.env, subject.v))
  /\ UNCHANGED subject

\* l.129-133
acmStampThen ==
  /\ ReadyThen("acmStamp")
  /\ Returns(Yield("cm", acmStamp(Head1.env, subject.v)))

\* l.143
anrRetryUser ==
  /\ ReadyThen("anrRetryUser")
  /\ InvokeAddNotificationRule(anrRetryUserArg(Head1.env, subject.v))
  /\ UNCHANGED subject

\* l.149
anrRetryCM ==
  /\ ReadyThen("anrRetryCM")
  /\ InvokeAddNotificationRule(anrRetryCMArg(Head1.env, subject.v))
  /\ UNCHANGED subject

\* l.176-184
anrStampThen ==
  /\ ReadyThen("anrStamp")
  /\ Returns(Yield("rule", anrStamp(Head1.env, subject.v)))

\* l.204-217
\* the loop starting every deletion itself, none waiting for the one before
MutDeleteAllAtOnce ==
  /\ ReadyThen("ccmDelete")
  /\ queue' = Tail(queue)
  /\ Logged([i \in 1..Len(subject.v) |->
               IssueEv(Gql("deleteAll", DeleteAllInput(subject.v[i])))])
  /\ inflight' = IF Len(subject.v) = 0 THEN NoFlight
                  ELSE Gql("deleteAll", DeleteAllInput(subject.v[Len(subject.v)]))
  /\ UNCHANGED << subject, status, cur, prev, result, calls, guids, fixtureOK, remote >>

ccmDeleteThen ==
  /\ ReadyThen("ccmDelete")
  /\ Enqueue(ccmDelete(subject.v))
  /\ UNCHANGED << inflight, subject, status, cur, prev, result, log, calls, guids,
                  fixtureOK, remote >>

\* l.222: cy.fixture('profile').then(resetProfile)
rpRetry ==
  /\ ReadyThen("rpRetry")
  /\ Enqueue(resetProfile(subject.v))
  /\ Logged(<< CallEv("resetProfile", subject.v.id, Undef) >>)
  /\ UNCHANGED << inflight, subject, status, cur, prev, result, calls, guids,
                  fixtureOK, remote >>

\* the queue has drained: the command yields to the test
Finish ==
  /\ status = "running"
  /\ inflight = NoFlight
  /\ queue = << >>
  /\ status' = "done"
  /\ result' = subject
  /\ UNCHANGED << queue, inflight, subject, cur, prev, log, calls, guids, fixtureOK, remote >>

Test ==
  \/ CallCreateUser
  \/ CallCreateManyUsers
  \/ CallResetProfile
  \/ CallAddContactMethod
  \/ CallAddNotificationRule

Run ==
  \/ RunCreateUser
  \/ RunCreateManyUsers
  \/ RunResetProfile
  \/ RunAddContactMethod
  \/ RunAddNotificationRule
  \/ Issue
  \/ cmuReturn
  \/ cuFirst
  \/ acmRetry
  \/ acmStampThen
  \/ anrRetryUser
  \/ anrRetryCM
  \/ anrStampThen
  \/ ccmDeleteThen
  \/ rpRetry
  \/ Finish

Remote ==
  \/ FixtureLoaded
  \/ FixtureMissing
  \/ SqlDone
  \/ CreateContactMethodDone
  \/ CreateNotificationRuleDone
  \/ ListContactMethodsDone
  \/ DeleteAllDone
  \/ UpdateUserDone
  \/ RemoteFails

Next == Test \/ Run \/ Remote

Spec == Init /\ [][Next]_vars

(***************************************************************************)
(* The two provisioners that resolve their dependencies, on their own: a   *)
(* test that issues addContactMethod and addNotificationRule only.  The    *)
(* queue runs the command at its head, and the fixture loader and the      *)
(* remote system answer every round trip, with a result or with a failure. *)
(***************************************************************************)
ResolveTest == CallAddContactMethod \/ CallAddNotificationRule
ResolveRun ==
  \/ RunAddContactMethod
  \/ RunAddNotificationRule
  \/ Issue
  \/ acmRetry
  \/ acmStampThen
  \/ anrRetryUser
  \/ anrRetryCM
  \/ anrStampThen
  \/ Finish
ResolveRemote ==
  \/ FixtureLoaded
  \/ FixtureMissing
  \/ CreateContactMethodDone
  \/ CreateNotificationRuleDone
  \/ RemoteFails
ResolveNext == ResolveTest \/ ResolveRun \/ ResolveRemote

FairSpec ==
  Init /\ [][ResolveNext]_vars /\ WF_vars(ResolveRun) /\ WF_vars(ResolveRemote)

(***************************************************************************)
(* A test body that issues several top-level commands back-to-back: each   *)
(* cy.<name>(arg) only appends the command to the queue, and the queue     *)
(* starts running when the body has returned.  The log then covers the     *)
(* whole script.                                                           *)
(***************************************************************************)
QueuedCmds(name) ==
  Cardinality({ i \in 1..Len(queue) : queue[i].k = "cmd" /\ queue[i].name = name })
\* a contact method the remote system has an id left for, per queued creation
RoomForCM ==
  nextCM + QueuedCmds("addContactMethod") + QueuedCmds("addNotificationRule") <= MaxCM

Script(op, arg) ==
  /\ status = "idle"
  /\ calls < MaxCalls
  /\ queue' = Append(queue, Cmd(op, arg))
  /\ calls' = calls + 1
  /\ UNCHANGED << inflight, subject, status, cur, prev, result, log, guids,
                  fixtureOK, remote >>

ScriptCreateUser == Script("createUser", NoArg)
ScriptResetProfile ==
  \E p \in { NoArg, [id |-> "u1", name |-> "Carol", email |-> "carol@example.com",
                      role |-> "admin"] } :
    /\ p \in ProfileArgs
    /\ Script("resetProfile", p)
ScriptAddContactMethod ==
  /\ RoomForCM
  /\ 2 * (QueuedCmds("addContactMethod") + 1) <= MaxInvocations
  /\ \E a \in { NoArg, [EmptyCM EXCEPT !.userID = "u2"] } :
       /\ a \in CMArgs
       /\ Script("addContactMethod", a)
ScriptAddNotificationRule ==
  /\ RoomForCM
  /\ QueuedCmds("addNotificationRule") = 0
  /\ \E a \in { [EmptyNR EXCEPT !.delayMinutes = <<7>>, !.contactMethod = NestedCM] } :
       /\ a \in NRArgs
       /\ Script("addNotificationRule", a)

\* the body has returned: the queue starts running
Start ==
  /\ status = "idle"
  /\ queue # << >>
  /\ status' = "running"
  /\ UNCHANGED << queue, inflight, subject, cur, prev, result, log, calls, guids,
                  fixtureOK, remote >>

QueueTest ==
  \/ ScriptCreateUser
  \/ ScriptResetProfile
  \/ ScriptAddContactMethod
  \/ ScriptAddNotificationRule
  \/ Start
QueueRun ==
  \/ RunCreateUser
  \/ RunResetProfile
  \/ RunAddContactMethod
  \/ RunAddNotificationRule
  \/ Issue
  \/ cmuReturn
  \/ cuFirst
  \/ acmRetry
  \/ acmStampThen
  \/ anrRetryUser
  \/ anrRetryCM
  \/ anrStampThen
  \/ ccmDeleteThen
  \/ rpRetry
  \/ Finish
QueueNext == QueueTest \/ QueueRun \/ Remote

QueueSpec == Init /\ [][QueueNext]_vars

(***************************************************************************)
(* What the log of the command being run says.                             *)
(***************************************************************************)
NRCall == cur.op = "addNotificationRule"
NRArg == IF cur.arg = NoArg THEN EmptyNR ELSE cur.arg
Issued(what) == Events("issue", what)
\* every remote round trip started so far
AllIssued == { i \in 1..Len(log) : log[i].ev = "issue" }
\* the kinds of the remote round trips started so far, in order
IssuedKinds == [i \in 1..Cardinality(AllIssued) |->
                  log[CHOOSE j \in AllIssued :
                        Cardinality({ k \in AllIssued : k <= j }) = i].what]
RemoteFailed == \E i \in 1..Len(log) : log[i].ev = "fail" /\ log[i].what # "fixture"

(***************************************************************************)
(* C1.  When addNotificationRule is given a contactMethodID (with or       *)
(* without a userID), no createUserContactMethod mutation is issued during *)
(* the call: the only mutation issued is createUserNotificationRule, and   *)
(* it carries the given contactMethodID.                                   *)
(***************************************************************************)
C1_ShortCircuit ==
  (NRCall /\ Truthy(NRArg.contactMethodID)) =>
    /\ Issued("createUserContactMethod") = {}
    /\ Invocations("addContactMethod") = 0
    /\ \A i \in AllIssued :
         log[i].what # "fixture" =>
           /\ log[i].what = "createUserNotificationRule"
           /\ log[i].b = NRArg.contactMethodID

C1_Witness ==
  /\ NRCall
  /\ Truthy(NRArg.contactMethodID)
  /\ ~Truthy(NRArg.userID)
  /\ status = "done"
  /\ Issued("createUserNotificationRule") # {}

(***************************************************************************)
(* C2.  The remote steps of addNotificationRule happen in the order        *)
(* fixture load (only if userID is absent), contact-method creation (only  *)
(* if contactMethodID is absent), rule creation: the rule mutation is      *)
(* issued only once the user id is known and, when a contact method had to *)
(* be created, once that creation has returned the id the rule carries.    *)
(***************************************************************************)
C2_CreationOrder ==
  NRCall =>
    /\ Truthy(NRArg.userID) => Issued("fixture") = {}
    /\ Truthy(NRArg.contactMethodID) => Issued("createUserContactMethod") = {}
    /\ \A i \in Issued("fixture") :
         \A j \in AllIssued : j < i => log[j].what = "fixture"
    /\ \A i \in Issued("createUserContactMethod") :
         /\ Truthy(log[i].a)
         /\ Issued("createUserNotificationRule") \cap 1..i = {}
         /\ ~Truthy(NRArg.userID) =>
              \E j \in Events("ok", "fixture") : j < i /\ log[j].a = log[i].a
    /\ \A i \in Issued("createUserNotificationRule") :
         /\ Truthy(log[i].a)
         /\ ~Truthy(NRArg.userID) =>
              \E j \in Events("ok", "fixture") : j < i /\ log[j].a = log[i].a
         /\ ~Truthy(NRArg.contactMethodID) =>
              \E j \in Events("ok", "createUserContactMethod") :
                j < i /\ log[j].b = log[i].b /\ log[j].a = log[i].a

C2_Witness ==
  /\ NRCall
  /\ cur.arg = NoArg
  /\ status = "done"
  /\ IssuedKinds = << "fixture", "createUserContactMethod", "createUserNotificationRule" >>

(***************************************************************************)
(* C3.  Every rule r that addNotificationRule returns has                  *)
(* r.contactMethod.userID = r.userID, and both are the user that owns the  *)
(* referenced contact method in the remote system, whatever the caller     *)
(* supplied.                                                               *)
(***************************************************************************)
C3_ReferentialConsistency ==
  (NRCall /\ status = "done") =>
    /\ result.v.contactMethod.userID = result.v.userID
    /\ result.v.userID = Owner(result.v.contactMethodID)

(***************************************************************************)
(* C4.  As claimed: addNotificationRule({}) with no fixture set up creates *)
(* a user, then a contact method for that user, then the rule, and returns *)
(* it.                                                                     *)
(***************************************************************************)
C4_CreatesUser ==
  (NRCall /\ cur.arg = NoArg /\ status # "running" /\ ~RemoteFailed) =>
    /\ status = "done"
    /\ Issued("sql") # {}

(***************************************************************************)
(* C4, amended.  addNotificationRule({}) creates no user.  It loads the    *)
(* active test subject from the profile fixture, then creates a contact    *)
(* method for that user, then the rule, and returns a rule whose userID,   *)
(* whose contactMethod.userID and whose contact method's owner are the     *)
(* fixture user; with no profile fixture the load fails and nothing is     *)
(* created.                                                                *)
(***************************************************************************)
C4_UsesFixtureUser ==
  (NRCall /\ cur.arg = NoArg) =>
    /\ Issued("sql") = {}
    /\ Invocations("createUser") = 0
    /\ status = "done" =>
         /\ fixtureOK
         /\ IssuedKinds =
              << "fixture", "createUserContactMethod", "createUserNotificationRule" >>
         /\ \A i \in Issued("createUserContactMethod") : log[i].a = FixtureProfile.id
         /\ result.kind = "rule"
         /\ result.v.userID = FixtureProfile.id
         /\ result.v.contactMethod.userID = FixtureProfile.id
         /\ Owner(result.v.contactMethodID) = FixtureProfile.id
         /\ \E j \in Events("ok", "createUserContactMethod") :
              log[j].b = result.v.contactMethodID
    /\ ~fixtureOK =>
         /\ status # "done"
         /\ \A i \in AllIssued : log[i].what = "fixture"

C4_Witness ==
  /\ NRCall
  /\ cur.arg = NoArg
  /\ status = "done"
  /\ result.v.userID = FixtureProfile.id

(***************************************************************************)
(* C5.  Cleanup is idempotent.  When a resetProfile has cleared a user's   *)
(* contact methods and the next command clears the same user's again, the  *)
(* second listing finds none and no deleteAll is issued; and whenever the  *)
(* listing finds no contact method, the cleanup issues no mutation: the    *)
(* listing query is its only round trip.                                   *)
(***************************************************************************)
ResetCall == cur.op = "resetProfile"
ListedNone == \E i \in Events("ok", "listContactMethods") : log[i].n = 0
SecondCleanup ==
  /\ ResetCall
  /\ prev.op = "resetProfile"
  /\ ListedUser # Undef
  /\ ListedUser = prev.uid

C5_CleanupIdempotent ==
  ResetCall =>
    /\ Count("issue", "listContactMethods") <= 1
    /\ SecondCleanup =>
         /\ Issued("deleteAll") = {}
         /\ \A i \in Events("ok", "listContactMethods") : log[i].n = 0
         /\ \A i \in 1..Len(log) :
              log[i].ev = "fail" => log[i].what \in {"fixture", "listContactMethods", "updateUser"}
    /\ ListedNone =>
         \A i \in AllIssued :
           log[i].what \in {"fixture", "listContactMethods", "updateUser"}

C5_Witness ==
  /\ SecondCleanup
  /\ prev.deleted = 2
  /\ status = "done"
  /\ IssuedKinds = << "listContactMethods", "updateUser" >>

(***************************************************************************)
(* C6.  createManyUsers (and createUser, a list of one) issues exactly one *)
(* remote call, which covers every entry; when the call fails nothing is   *)
(* returned; when it succeeds the list returned is as long as the input    *)
(* and its i-th record is the i-th entry with its missing fields filled.   *)
(***************************************************************************)
UsersCall == cur.op \in {"createUser", "createManyUsers"}
UsersInput ==
  IF cur.op = "createManyUsers" THEN cur.arg
  ELSE IF cur.arg = NoArg THEN << EmptyUser >> ELSE << cur.arg >>
Corresponds(u, p) ==
  /\ Truthy(u.name) => p.name = u.name
  /\ Truthy(u.email) => p.email = u.email
  /\ p.role = IF Truthy(u.role) THEN u.role ELSE "user"
  /\ Truthy(p.id) /\ Truthy(p.name) /\ Truthy(p.email)

C6_OneBatchCall ==
  UsersCall =>
    /\ Cardinality(AllIssued) <= 1
    /\ \A i \in AllIssued : log[i].what = "sql" /\ log[i].n = Len(UsersInput)
    /\ status = "failed" => result = NoSubject
    /\ status = "done" =>
         /\ Count("ok", "sql") = 1
         /\ cur.op = "createManyUsers" =>
              /\ result.kind = "profiles"
              /\ Len(result.v) = Len(UsersInput)
              /\ \A i \in 1..Len(UsersInput) : Corresponds(UsersInput[i], result.v[i])
              /\ \A i, j \in 1..Len(result.v) : i # j => result.v[i].id # result.v[j].id
         /\ cur.op = "createUser" =>
              /\ result.kind = "profile"
              /\ Corresponds(UsersInput[1], result.v)

C6_Witness ==
  /\ cur.op = "createManyUsers"
  /\ Len(cur.arg) = 2
  /\ cur.arg[1] # cur.arg[2]
  /\ status = "done"
  /\ result.v[2].name = "word"

(***************************************************************************)
(* C7.  resetProfile clears the user's contact methods and only then       *)
(* updates the user: updateUser is not issued before every deleteAll the   *)
(* cleanup enqueued has completed, and once resetProfile has succeeded the *)
(* user owns no contact method and has the name, email and role of the     *)
(* profile given (of the fixture's profile when none is given).            *)
(***************************************************************************)
ResetTarget == IF cur.arg = NoArg THEN FixtureProfile ELSE cur.arg

C7_ClearThenUpdate ==
  ResetCall =>
    /\ \A i \in Issued("updateUser") :
         /\ log[i].a = ResetTarget.id
         /\ \E j \in Events("ok", "listContactMethods") :
              /\ j < i
              /\ log[j].a = ResetTarget.id
              /\ Cardinality(Events("ok", "deleteAll") \cap 1..i) = log[j].n
         /\ \A j \in Issued("deleteAll") : j < i
         /\ \A k \in 1..Len(queue) : queue[k].k = "gql" => queue[k].op # "deleteAll"
    /\ status = "done" =>
         /\ Count("ok", "updateUser") = 1
         /\ OwnedBy(ResetTarget.id) = {}
         /\ userRow[ResetTarget.id] =
              [name |-> ResetTarget.name, email |-> ResetTarget.email,
               role |-> ResetTarget.role]

C7_Witness ==
  /\ ResetCall
  /\ cur.arg = NoArg
  /\ status = "done"
  /\ Count("ok", "deleteAll") = 2
  /\ userRow[FixtureProfile.id].name = FixtureProfile.name

(***************************************************************************)
(* C8.  As claimed: whatever delayMinutes in 0..15 the caller gives, 0     *)
(* included, is the delayMinutes of the createUserNotificationRule input;  *)
(* a delay is drawn only when the caller gives none.                       *)
(***************************************************************************)
C8_CallerDelayKept ==
  (NRCall /\ NRArg.delayMinutes # << >>) =>
    \A i \in Issued("createUserNotificationRule") : log[i].n = NRArg.delayMinutes[1]

(***************************************************************************)
(* C9.  As claimed: when deleting one contact method fails, every contact  *)
(* method the listing found still gets its deleteAll attempt.              *)
(***************************************************************************)
DeleteFailed == Events("fail", "deleteAll") # {}
ListedCount == log[CHOOSE i \in Events("ok", "listContactMethods") : TRUE].n

C9_AllAttempted ==
  (ResetCall /\ DeleteFailed) => Count("issue", "deleteAll") = ListedCount

(***************************************************************************)
(* C9, amended.  clearContactMethods deletes the contact methods found one *)
(* at a time, each in its own deleteAll.  A deletion that fails is         *)
(* surfaced to the caller and ends the chain: the contact methods not yet  *)
(* attempted get no deleteAll, updateUser is not issued, and the deletions *)
(* already done stand.  When no deletion fails, every contact method found *)
(* is deleted.                                                             *)
(***************************************************************************)
C9_FailureStopsCleanup ==
  ResetCall =>
    /\ \A i \in Issued("deleteAll") : log[i].n = 1
    /\ DeleteFailed =>
         /\ status = "failed"
         /\ result = NoSubject
         /\ queue = << >>
         /\ log[Len(log)].ev = "fail"
         /\ Count("issue", "deleteAll") = Count("ok", "deleteAll") + 1
         /\ Count("issue", "deleteAll") <= ListedCount
         /\ Issued("updateUser") = {}
         /\ \A i \in Events("ok", "deleteAll") : Owner(log[i].b) = Undef
         /\ Cardinality(OwnedBy(ListedUser)) = ListedCount - Count("ok", "deleteAll")
    /\ Issued("updateUser") # {} => Count("ok", "deleteAll") = ListedCount

C9_Witness ==
  /\ ResetCall
  /\ DeleteFailed
  /\ ListedCount = 2
  /\ Count("issue", "deleteAll") = 1
  /\ Cardinality(OwnedBy(ListedUser)) = 2

(***************************************************************************)
(* C10.  Dependency resolution terminates.  addContactMethod invokes       *)
(* itself at most once more and addNotificationRule at most twice more,    *)
(* each invocation missing fewer of the two ids than the one before; and   *)
(* when the queue is run and the remote side answers, every call ends:     *)
(* with its final mutation done, or failed.                                *)
(***************************************************************************)
CallsOf(fn) == Events("call", fn)
Missing(e) == (IF Truthy(e.a) THEN 0 ELSE 1) + (IF Truthy(e.b) THEN 0 ELSE 1)
FinalMutation ==
  IF NRCall THEN "createUserNotificationRule" ELSE "createUserContactMethod"
RetriesBounded ==
  /\ cur.op = "addContactMethod" =>
       /\ Invocations("addContactMethod") <= 2
       /\ \A i, j \in CallsOf("addContactMethod") :
            i < j => ~Truthy(log[i].a) /\ Truthy(log[j].a)
  /\ NRCall =>
       /\ Invocations("addNotificationRule") <= 3
       /\ Invocations("addContactMethod") <= 1
       /\ \A i \in CallsOf("addContactMethod") : Truthy(log[i].a)
       /\ \A i, j \in CallsOf("addNotificationRule") :
            i < j => Missing(log[j]) < Missing(log[i])
  /\ status = "done" => Count("ok", FinalMutation) = 1

Failures == { i \in 1..Len(log) : log[i].ev = "fail" }
IssuedOnce(what) == Count("issue", what) <= 1

C12_FailureEndsChain ==
  /\ status = "failed" <=> Failures # {}
  /\ Failures # {} =>
       /\ Failures = { Len(log) }
       /\ log[Len(log) - 1].ev = "issue"
       /\ log[Len(log) - 1].what = log[Len(log)].what
       /\ queue = << >>
       /\ inflight = NoFlight
       /\ result = NoSubject
       /\ subject = NoSubject
  /\ IssuedOnce("sql")
  /\ IssuedOnce("createUserContactMethod")
  /\ IssuedOnce("createUserNotificationRule")
  /\ IssuedOnce("updateUser")
  /\ \A i, j \in Issued("deleteAll") : i # j => log[i].b # log[j].b

C12_Witness ==
  /\ NRCall
  /\ status = "failed"
  /\ Count("ok", "fixture") = 1
  /\ Count("ok", "createUserContactMethod") = 1
  /\ log[Len(log)] = Ev("fail", "createUserNotificationRule", Undef, Undef, 0)

(***************************************************************************)
(* C13.  What the provisioners produce keeps to the domains.  Every user   *)
(* record has a role among user and admin, user when the caller gave none, *)
(* and the name, email and role the caller gave; the contact-method        *)
(* mutation input has a type among SMS and VOICE and the type and value    *)
(* the caller gave; the rule mutation input has delayMinutes >= 0.         *)
(* A field given as the empty string counts as not given.                  *)
(***************************************************************************)
\* the commands queued or in flight
Pending == { queue[i] : i \in 1..Len(queue) } \cup { inflight }
PendingGql(op) == { c \in Pending : c.k = "gql" /\ c.op = op }
PendingRows == UNION { { c.rows[i] : i \in 1..Len(c.rows) } : c \in { d \in Pending : d.k = "sql" } }
\* the contact-method options the caller gave
CallerCM ==
  IF cur.op = "addContactMethod" THEN Spread(cur.arg)
  ELSE IF NRCall THEN Spread(NRArg.contactMethod)
  ELSE EmptyCM
Given(u, f, p) == Truthy(u[f]) => p[f] = u[f]
UserRecordOk(u, p) ==
  /\ p.role \in {"user", "admin"}
  /\ ~Truthy(u.role) => p.role = "user"
  /\ Given(u, "name", p) /\ Given(u, "email", p) /\ Given(u, "role", p)

PendingDeletes == PendingGql("deleteAll")
DeleteTargets == { c.input[1].id : c \in PendingDeletes }
\* the cleanup has enqueued its deletions and updateUser is still to come
Cleaning ==
  /\ ResetCall
  /\ status = "running"
  /\ Events("ok", "listContactMethods") # {}
  /\ \A k \in 1..Len(queue) : queue[k].k # "then"
  /\ Issued("updateUser") = {}

C14_OneDeletePerListed ==
  ResetCall =>
    /\ \A c \in PendingDeletes :
         /\ Len(c.input) = 1
         /\ c.input[1].type = "contactMethod"
         /\ Owner(c.input[1].id) = ListedUser
    /\ Cardinality(PendingDeletes) = Cardinality(DeleteTargets)
    /\ Cleaning => DeleteTargets = OwnedBy(ListedUser)
    /\ Cleaning =>
         Cardinality(DeleteTargets) + Count("ok", "deleteAll") = ListedCount
    /\ \A i, j \in Issued("deleteAll") : i # j => log[i].b # log[j].b
    /\ Issued("updateUser") # {} =>
         /\ Count("issue", "deleteAll") = ListedCount
         /\ Count("ok", "deleteAll") = ListedCount
         /\ OwnedBy(ListedUser) = {}

C14_Witness ==
  /\ ResetCall
  /\ status = "done"
  /\ ListedCount = 2
  /\ Count("issue", "deleteAll") = 2
  /\ OwnedBy(ListedUser) = {}

(***************************************************************************)
(* C15.  addContactMethod returns a record whose userID is the userID its  *)
(* mutation was issued with: the caller's when the caller gave one, and    *)
(* then the fixture is never loaded; otherwise the id of the fixture's     *)
(* profile, loaded exactly once, before the mutation.                      *)
(***************************************************************************)
CMCall == cur.op = "addContactMethod"
CMUser == IF Truthy(Spread(cur.arg).userID) THEN Spread(cur.arg).userID
                                             ELSE FixtureProfile.id

C15_ContactMethodUser ==
  CMCall =>
    /\ Count("issue", "fixture") <= 1
    /\ Truthy(Spread(cur.arg).userID) => Count("issue", "fixture") = 0
    /\ Count("issue", "createUserContactMethod") <= 1
    /\ \A i \in Issued("createUserContactMethod") :
         /\ log[i].a = CMUser
         /\ ~Truthy(Spread(cur.arg).userID) =>
              /\ Count("issue", "fixture") = 1
              /\ \E j \in Events("ok", "fixture") : j < i
    /\ status = "done" =>
         /\ Count("ok", "createUserContactMethod") = 1
         /\ result.kind = "cm"
         /\ result.v.userID = CMUser
         /\ \E i \in Events("ok", "createUserContactMethod") :
              log[i].a = result.v.userID /\ log[i].b = result.v.id
         /\ Owner(result.v.id) = result.v.userID

C15_Witness ==
  /\ CMCall
  /\ cur.arg = NoArg
  /\ status = "done"
  /\ result.v.userID = FixtureProfile.id
  /\ Count("ok", "fixture") = 1

(***************************************************************************)
(* C16.  When addNotificationRule creates the contact method itself, it    *)
(* creates it for the rule's own user: the createUserContactMethod input   *)
(* has the rule's resolved userID, also when the nested contactMethod      *)
(* names another user, and the nested name, type and value; the rule is    *)
(* then created with the id that creation returned.                        *)
(***************************************************************************)
NRUser == IF Truthy(NRArg.userID) THEN NRArg.userID ELSE FixtureProfile.id
CreatesCM == NRCall /\ ~Truthy(NRArg.contactMethodID)

C16_NestedContactMethod ==
  CreatesCM =>
    /\ \A c \in PendingGql("createUserContactMethod") :
         /\ c.input.userID = NRUser
         /\ Given(Spread(NRArg.contactMethod), "name", c.input)
         /\ Given(Spread(NRArg.contactMethod), "type", c.input)
         /\ Given(Spread(NRArg.contactMethod), "value", c.input)
    /\ \A i \in Issued("createUserContactMethod") : log[i].a = NRUser
    /\ \A c \in PendingGql("createUserNotificationRule") :
         /\ c.input.userID = NRUser
         /\ \E j \in Events("ok", "createUserContactMethod") :
              log[j].b = c.input.contactMethodID
         /\ Owner(c.input.contactMethodID) = NRUser

C16_Witness ==
  /\ CreatesCM
  /\ NRArg.contactMethod = NestedCM
  /\ NRUser # NestedCM.userID
  /\ status = "done"
  /\ Owner(result.v.contactMethodID) = NRUser

(***************************************************************************)
(* C17.  An addNotificationRule call loads the fixture at most once and    *)
(* creates at most one contact method, and a successful one has created    *)
(* exactly one rule, whichever of userID and contactMethodID are given: no *)
(* dependency is resolved or created twice.                                *)
(***************************************************************************)
C17_EachDependencyOnce ==
  NRCall =>
    /\ Count("issue", "fixture") <= 1
    /\ Count("issue", "createUserContactMethod") <= 1
    /\ Count("issue", "createUserNotificationRule") <= 1
    /\ status = "done" =>
         /\ Count("ok", "fixture") = IF Truthy(NRArg.userID) THEN 0 ELSE 1
         /\ Count("ok", "createUserContactMethod") =
              IF Truthy(NRArg.contactMethodID) THEN 0 ELSE 1
         /\ Count("ok", "createUserNotificationRule") = 1

C17_Witness ==
  /\ NRCall
  /\ ~Truthy(NRArg.userID)
  /\ ~Truthy(NRArg.contactMethodID)
  /\ NRArg.contactMethod = NestedCM
  /\ status = "done"
  /\ Count("ok", "fixture") = 1
  /\ Count("ok", "createUserContactMethod") = 1

(***************************************************************************)
(* C11.  Provisioning is serialized: at most one round trip (fixture load, *)
(* sql, graphql2) is in flight at any time, and no round trip is started   *)
(* before every one started earlier has resolved or failed.  This holds    *)
(* for the deleteAll mutations that one cleanup loop enqueues, and for     *)
(* top-level commands issued back-to-back: a waiting top-level command     *)
(* stays behind everything the running one has enqueued, and it is started *)
(* only when no round trip is in flight.                                   *)
(***************************************************************************)
Answers == { i \in 1..Len(log) : log[i].ev \in {"ok", "fail"} }
Before(S, i) == Cardinality({ j \in S : j < i })
Outstanding == Cardinality(AllIssued) - Cardinality(Answers)

C11_Serialized ==
  /\ Outstanding = IF inflight = NoFlight THEN 0 ELSE 1
  /\ \A i \in AllIssued : Before(AllIssued, i) = Before(Answers, i)
  /\ \A i \in Answers :
       /\ i - 1 \in AllIssued
       /\ log[i - 1].what = log[i].what
  /\ \A i \in CallsOf("createUser") \cup CallsOf("resetProfile")
            \cup CallsOf("addContactMethod") \cup CallsOf("addNotificationRule") :
       Before(AllIssued, i) = Before(Answers, i)
  /\ \A i, j \in 1..Len(queue) :
       i < j /\ queue[i].k = "cmd" /\ queue[j].k # "cmd" =>
         \* only the contact method addNotificationRule creates for itself
         /\ i = 1 /\ j = 2
         /\ queue[1].name = "addContactMethod"
         /\ queue[2].k = "then" /\ queue[2].cb = "anrRetryCM"
  /\ inflight # NoFlight /\ inflight.k = "gql" /\ inflight.op = "deleteAll" =>
       \A c \in { queue[i] : i \in 1..Len(queue) } :
         c.k = "gql" /\ c.op = "deleteAll" =>
           /\ Owner(c.input[1].id) # Undef
           /\ Issued("deleteAll") \cap
                { i \in 1..Len(log) : log[i].b = c.input[1].id } = {}

\* a script of two commands has run: the cleanup deleted two contact methods
\* one after the other, and the contact method was created after the update
C11_Witness ==
  /\ cur.op = "none"
  /\ calls = 2
  /\ status = "done"
  /\ Count("ok", "deleteAll") = 2
  /\ \E i \in Events("ok", "updateUser") :
       \E j \in Issued("createUserContactMethod") : i < j

=============================================================================
